---- MODULE Spec2Model ----
(***************************************************************************)
(* The audio-session control loop of sound-priority (src/src/deamon.rs)    *)
(* together with the device snapshot it polls (src/src/winmix/device.rs).  *)
(*                                                                         *)
(* f32 values (volumes, peaks, thresholds) are integers counting units of  *)
(* 2^-28: every f32 in [2^-5, 2) is a whole number of such units, and so   *)
(* is every sum or difference of two of them.  Durations are integers      *)
(* counting milliseconds.  Strings are sequences of one-character strings. *)
(***************************************************************************)
EXTENDS Integers, Sequences, FiniteSets, TLC

\* ------------------------------------------------------------------ f32

One == 2^28

Abs(x) == IF x < 0 THEN -x ELSE x

Sign(x) == IF x < 0 THEN -1 ELSE 1

Min(a, b) == IF a <= b THEN a ELSE b

\* The spacing of the f32 values around magnitude m (24-bit significand).
Ulp(m) ==
  IF m < 2^24 THEN 1
  ELSE IF m < 2^25 THEN 2
  ELSE IF m < 2^26 THEN 4
  ELSE IF m < 2^27 THEN 8
  ELSE IF m < 2^28 THEN 16
  ELSE IF m < 2^29 THEN 32
  ELSE 64

\* Round-to-nearest, ties-to-even, of the magnitude m.
RoundMag(m) ==
  LET u == Ulp(m)
      q == m \div u
      r == m % u
  IN  IF 2 * r < u THEN q * u
      ELSE IF 2 * r > u THEN (q + 1) * u
      ELSE (q + (q % 2)) * u

RoundF32(x) == Sign(x) * RoundMag(Abs(x))

F32Add(a, b) == RoundF32(a + b)

F32Sub(a, b) == RoundF32(a - b)

\* f32::max of two non-NaN values.
F32Max(a, b) == IF a >= b THEN a ELSE b

\* The f32 nearest to the decimal n/100 (a literal such as 0.05 or 0.3), for
\* n = 0 or 4 <= n <= 100.  2^28 = 2684354 * 100 + 56.
F32FromPercent(n) ==
  LET whole == n * (One \div 100) + (n * (One % 100)) \div 100
      frac  == (n * (One % 100)) % 100
      u     == Ulp(whole)
      q     == whole \div u
      r     == (whole % u) * 100 + frac
  IN  IF 2 * r < u * 100 THEN q * u
      ELSE IF 2 * r > u * 100 THEN (q + 1) * u
      ELSE (q + (q % 2)) * u


\* ------------------------------------------------------------------ strings

\* str::contains: pat occurs in s as a contiguous substring.
Contains(s, pat) ==
  \E i \in 0..(Len(s) - Len(pat)) : SubSeq(s, i + 1, i + Len(pat)) = pat

\* The characters that separate the components of a Windows path.
IsSeparator(c) == c \in {"/", "\\"}

\* Positions of s holding a character for which the test is true.
Positions(s, Test(_)) == {i \in 1..Len(s) : Test(s[i])}

SetMax(S) == CHOOSE m \in S : \A v \in S : m >= v

\* The final component of a path.
FileName(path) ==
  LET seps == Positions(path, IsSeparator)
  IN  IF seps = {} THEN path ELSE SubSeq(path, SetMax(seps) + 1, Len(path))

IsDot(c) == c = "."

\* Path::file_stem: the final component up to its last dot; the whole of it when
\* it has no dot or its only dot comes first.
FileStem(path) ==
  LET file == FileName(path)
      dots == Positions(file, IsDot)
  IN  IF dots = {} \/ SetMax(dots) = 1 THEN file
      ELSE SubSeq(file, 1, SetMax(dots) - 1)

\* ------------------------------------------------------------------ constants

TICK == 100
REDUCE_TIMEOUT == 200
RESOTRE_TIMEOUT == 3000
FORCE_RELOAD_TICKS == 600
TRANSFORM_SPEED == F32FromPercent(5)

\* ------------------------------------------------------------------ bounds

\* Iterations of the loop explored with commands and failures (Spec).
MaxTicks == 5
\* Iterations explored when only the sampled peaks vary (SpecRuns).
MaxTicksLong == 36
\* Iterations explored over a flip and the fade after it (SpecFade).
MaxTicksFade == 24
\* Iterations explored when the audio calls may fail (SpecFaults).
MaxTicksFaults == 4
\* Commands the channel holds at once.
MaxQueue == 2
MaxTicksOrder == 2
MaxTicksLive == 2
\* Iterations explored over both timeouts with the configuration replaced
\* (SpecStatus).
MaxTicksStatus == 33
\* Iterations explored while a target session joins a fade (SpecJoin).
MaxTicksJoin == 11
\* Iterations explored while the audio subsystem changes and calls fail (SpecEnv).
MaxTicksEnv == 4
\* Iterations explored with the meters of two sessions read (SpecPeak).
MaxTicksPeak == 3
\* Iterations explored with commands and sessions of every class (SpecFrame).
MaxTicksFrame == 4
\* Iterations explored from the start of the worker on (SpecStart).
MaxTicksStart == 6
\* Iterations explored with two sessions of one process (SpecTwin).
MaxTicksTwin == 8
\* Iterations explored across the forced resync (SpecForce): one past tick 600.
MaxTicksForce == 601
\* The iterations of SpecForce during which the audio subsystem changes.
MaxTicksChange == 2

\* ------------------------------------------------------------------ the audio subsystem

game_exe == <<"C", ":", "\\", "g", "a", "m", "e", ".", "e", "x", "e">>
voice_exe == <<"C", ":", "\\", "v", "o", "i", "c", "e", ".", "e", "x", "e">>
music_exe == <<"C", ":", "\\", "m", "u", "s", "i", "c", ".", "e", "x", "e">>
gamebar_exe == <<"C", ":", "\\", "g", "a", "m", "e", "b", "a", "r", ".", "e", "x", "e">>

\* The audio sessions the endpoints can hold: process identifier, executable
\* path and endpoint of each, in the order the session enumerator lists them.
\* Sessions 4 and 5 are system-sounds sessions (process identifier 0);
\* session 7 is a second audio session of the process of session 1.
SessionTable ==
  << [pid |-> 11, path |-> game_exe, dev |-> 1],
     [pid |-> 12, path |-> music_exe, dev |-> 1],
     [pid |-> 13, path |-> gamebar_exe, dev |-> 1],
     [pid |-> 0, path |-> <<>>, dev |-> 1],
     [pid |-> 0, path |-> <<>>, dev |-> 1],
     [pid |-> 14, path |-> voice_exe, dev |-> 2],
     [pid |-> 11, path |-> game_exe, dev |-> 1] >>

\* The render endpoints that can be the default one.
Endpoints == {1, 2}

SessionIds == 1..Len(SessionTable)

\* A failed IAudioMeterInformation::GetPeakValue.
PeakErr == 0 - 1

\* ------------------------------------------------------------------ configuration

Str_game == <<"g", "a", "m", "e">>
Str_game_exe == <<"g", "a", "m", "e", ".", "e", "x", "e">>
Str_am == <<"a", "m">>

\* Config::new
ConfigNew ==
  [ exclude |-> <<>>, targets |-> <<>>,
    transform_speed |-> F32FromPercent(100),
    resotre_volume |-> F32FromPercent(100),
    reduce_volume |-> F32FromPercent(50),
    sensitivity |-> F32FromPercent(10) ]

MakeConfig(targets, exclude, speed, restore, reduce, sens) ==
  [ exclude |-> exclude, targets |-> targets,
    transform_speed |-> F32FromPercent(speed),
    resotre_volume |-> F32FromPercent(restore),
    reduce_volume |-> F32FromPercent(reduce),
    sensitivity |-> F32FromPercent(sens) ]


\* ------------------------------------------------------------------ state

VARIABLES
  mode,           \* the worker: "Running", "Suspended", "Stopped", "Panicked"
  queue,          \* the command channel, oldest command first
  sender_alive,   \* the Deamon handle (the only Sender) has not been dropped
  config,         \* the worker's configuration
  transform,      \* the fader is armed
  ticks,          \* the forced-resync tick counter
  volume_status,  \* "Restore" or "Reduce"
  expect_volume,  \* the fade target
  timeout,        \* the pending-timeout accumulator, in ms
  device,         \* the snapshot: a Device, or in SpecSync also a DefaultDerive
  os_default,     \* the default render endpoint of the audio subsystem
  os_live,        \* the sessions that exist in the audio subsystem
  os_volume,      \* the master volume of each session
  h               \* what the last tick did, and the runs of ticks so far

vars ==
  << mode, queue, sender_alive, config, transform, ticks, volume_status,
     expect_volume, timeout, device, os_default, os_live, os_volume, h >>

\* ------------------------------------------------------------------ Session, Device

\* Session::new
SessionNew(id, pid, path) == [id |-> id, pid |-> pid, name |-> FileStem(path)]

Str_system == <<"$", "s", "y", "s", "t", "e", "m">>

\* Device::get_sessions, from session number i on: the system-sounds session
\* (process identifier 0) is listed once.
RECURSIVE GetSessionsFrom(_, _, _, _)
GetSessionsFrom(i, dev, live, has_system) ==
  IF i > Len(SessionTable) THEN <<>>
  ELSE IF i \notin live \/ SessionTable[i].dev # dev
    THEN GetSessionsFrom(i + 1, dev, live, has_system)
  ELSE IF SessionTable[i].pid = 0
    THEN IF has_system THEN GetSessionsFrom(i + 1, dev, live, has_system)
         ELSE <<SessionNew(i, 0, Str_system)>>
                \o GetSessionsFrom(i + 1, dev, live, TRUE)
  ELSE <<SessionNew(i, SessionTable[i].pid, SessionTable[i].path)>>
         \o GetSessionsFrom(i + 1, dev, live, has_system)

\* A variant: every system-sounds session is pushed, not only the first one.
GetSessions_EverySystem(dev, live) ==
  LET ids == SelectSeq([i \in 1..Len(SessionTable) |-> i],
                       LAMBDA i : i \in live /\ SessionTable[i].dev = dev)
  IN  [k \in 1..Len(ids) |->
         IF SessionTable[ids[k]].pid = 0 THEN SessionNew(ids[k], 0, Str_system)
         ELSE SessionNew(ids[k], SessionTable[ids[k]].pid, SessionTable[ids[k]].path)]

\* Device::get_sessions
GetSessions(dev, live) == GetSessionsFrom(1, dev, live, FALSE)

\* Device::new
DeviceNew(dev) ==
  [ kind |-> "Device", device |-> dev, manager |-> dev,
    device_receiver |-> FALSE, device_pending |-> FALSE, device_vcallback |-> FALSE,
    sessions_some |-> FALSE, sessions |-> <<>>,
    sessions_receiver |-> FALSE, sessions_pending |-> FALSE,
    sessions_vcallback |-> FALSE ]

\* Device::current_sessions
CurrentSessions(d) == IF d.sessions_some THEN d.sessions ELSE <<>>

\* Device::register_device; fail: the enumerator or the registration call fails.
RegisterDevice(d, fail) ==
  IF d.device_vcallback THEN [dev |-> d, ok |-> TRUE]
  ELSE IF fail THEN [dev |-> d, ok |-> FALSE]
  ELSE [ dev |-> [d EXCEPT !.device_vcallback = TRUE, !.device_receiver = TRUE,
                           !.device_pending = FALSE],
         ok |-> TRUE ]

\* Device::register_sessions
RegisterSessions(d, live, fail_register, fail_enum) ==
  IF d.sessions_vcallback THEN [dev |-> d, ok |-> TRUE]
  ELSE IF fail_register THEN [dev |-> d, ok |-> FALSE]
  ELSE LET r == [d EXCEPT !.sessions_vcallback = TRUE, !.sessions_receiver = TRUE,
                          !.sessions_pending = FALSE]
       IN  IF fail_enum THEN [dev |-> r, ok |-> FALSE]
           ELSE [ dev |-> [r EXCEPT !.sessions_some = TRUE,
                                    !.sessions = GetSessions(d.manager, live)],
                  ok |-> TRUE ]

\* Device::unregister_sessions: the callback is put back, the receiver dropped.
UnregisterSessions(d) ==
  IF d.sessions_vcallback
    THEN [d EXCEPT !.sessions_vcallback = TRUE, !.sessions_receiver = FALSE,
                   !.sessions_pending = FALSE]
    ELSE d

\* Device::register
DeviceRegister(d, live, fail_device, fail_register, fail_enum) ==
  LET r == RegisterDevice(d, fail_device)
  IN  IF r.ok THEN RegisterSessions(r.dev, live, fail_register, fail_enum) ELSE r

NeedsEnumerate_Always(force, sessions_synced) == TRUE

\* Device::sync: the test before the sessions are enumerated again.
NeedsEnumerate(force, sessions_synced) == ~sessions_synced \/ force

\* Device::sync; fail_default: the default endpoint cannot be resolved;
\* fail_enum: the sessions cannot be enumerated.
DeviceSync(d, force, default, live, fail_default, fail_enum) ==
  LET device_synced == ~(d.device_receiver /\ d.device_pending)
      sessions_synced == ~(d.sessions_receiver /\ d.sessions_pending)
      d0 == [d EXCEPT !.device_pending = FALSE, !.sessions_pending = FALSE]
      resync == ~device_synced \/ force
      is_registered_sessions == d0.sessions_receiver
      d1 == IF resync /\ is_registered_sessions THEN UnregisterSessions(d0) ELSE d0
      d2 == [d1 EXCEPT !.device = default, !.manager = default]
      reg == IF is_registered_sessions
               THEN RegisterSessions(d2, live, FALSE, fail_enum)
               ELSE [dev |-> d2, ok |-> TRUE]
      d3 == IF resync THEN reg.dev ELSE d0
      enumerate == NeedsEnumerate(force,
                                  sessions_synced /\ ~(resync /\ is_registered_sessions))
  IN  IF resync /\ fail_default THEN [dev |-> d1, ok |-> FALSE]
      ELSE IF resync /\ ~reg.ok THEN [dev |-> reg.dev, ok |-> FALSE]
      ELSE IF enumerate /\ fail_enum THEN [dev |-> d3, ok |-> FALSE]
      ELSE IF enumerate
        THEN [ dev |-> [d3 EXCEPT !.sessions_some = TRUE,
                                  !.sessions = GetSessions(d3.manager, live)],
               ok |-> TRUE ]
      ELSE [dev |-> d3, ok |-> TRUE]

\* The snapshot a Device holds: endpoint and session list.
Snapshot(d) == <<d.device, d.sessions_some, d.sessions>>

\* The snapshot that reflects the audio subsystem as it is.
FreshSnapshot == <<os_default, TRUE, GetSessions(os_default, os_live)>>

\* The sessions of the snapshot.
SessionsIds(d) == {CurrentSessions(d)[i].id : i \in 1..Len(CurrentSessions(d))}

\* Whether this sync call resolves the default endpoint, and whether it
\* enumerates the sessions (the calls that can fail).
SyncResolves(d, force) == force \/ (d.device_receiver /\ d.device_pending)

SyncEnumerates(d, force) ==
  \/ force
  \/ d.sessions_receiver /\ d.sessions_pending
  \/ SyncResolves(d, force) /\ d.sessions_receiver

\* ------------------------------------------------------------------ VolumeStatus

\* VolumeStatus::toggle
Toggle(status) == IF status = "Restore" THEN "Reduce" ELSE "Restore"

IsTimeout_Late(status, time) ==
  time > (IF status = "Restore" THEN RESOTRE_TIMEOUT ELSE REDUCE_TIMEOUT)

IsTimeout_Swapped(status, time) ==
  time >= (IF status = "Restore" THEN REDUCE_TIMEOUT ELSE RESOTRE_TIMEOUT)

\* VolumeStatus::is_timeout
IsTimeout(status, time) ==
  time >= (IF status = "Restore" THEN RESOTRE_TIMEOUT ELSE REDUCE_TIMEOUT)

\* A variant: the volume of the other status.
StatusVolume_Swapped(status, cfg) ==
  IF status = "Restore" THEN cfg.reduce_volume ELSE cfg.resotre_volume

\* VolumeStatus::volume
StatusVolume(status, cfg) ==
  IF status = "Restore" THEN cfg.resotre_volume ELSE cfg.reduce_volume

VolumeStatusNew_Swapped(reduce) == IF reduce THEN "Restore" ELSE "Reduce"

\* VolumeStatus::new
VolumeStatusNew(reduce) == IF reduce THEN "Reduce" ELSE "Restore"

\* ------------------------------------------------------------------ the tick

\* Some entry of the list is contained in the name.
AnyContained(list, name) == \E i \in 1..Len(list) : Contains(name, list[i])

IsTarget_UnlessExcluded(cfg, name) ==
  AnyContained(cfg.targets, name) /\ ~AnyContained(cfg.exclude, name)

IsTarget(cfg, name) == AnyContained(cfg.targets, name)

IsExclude(cfg, name) == AnyContained(cfg.exclude, name)

\* A variant: a session on the exclude list is measured.
NeedCheck_NotTarget(cfg, name) == ~IsTarget(cfg, name)

NeedCheck(cfg, name) == ~IsTarget(cfg, name) /\ ~IsExclude(cfg, name)

\* A variant: every session of the snapshot is a target.
Targets_All(cfg, sessions) == {sessions[i].id : i \in 1..Len(sessions)}

\* The sessions the loop puts in its HashSet of targets: Session equality and
\* hash are by process identifier, and insert keeps the element already there.
Targets(cfg, sessions) ==
  { sessions[i].id : i \in
      { i \in 1..Len(sessions) :
          /\ IsTarget(cfg, sessions[i].name)
          /\ \A j \in 1..(i - 1) :
               ~(IsTarget(cfg, sessions[j].name) /\ sessions[j].pid = sessions[i].pid) } }

\* The sessions whose peak the loop folds into the measured peak.
Measured(cfg, sessions, peaks) ==
  { sessions[i].id : i \in
      { i \in 1..Len(sessions) :
          NeedCheck(cfg, sessions[i].name) /\ peaks[sessions[i].id] # PeakErr } }

\* The loop over the sessions, from session i on with the peak so far.
RECURSIVE PeakFrom(_, _, _, _, _)
PeakFrom(i, peak, cfg, sessions, peaks) ==
  IF i > Len(sessions) THEN peak
  ELSE IF NeedCheck(cfg, sessions[i].name) /\ peaks[sessions[i].id] # PeakErr
    THEN PeakFrom(i + 1, F32Max(peak, peaks[sessions[i].id]), cfg, sessions, peaks)
  ELSE PeakFrom(i + 1, peak, cfg, sessions, peaks)

MeasuredPeak(cfg, sessions, peaks) == PeakFrom(1, 0, cfg, sessions, peaks)

\* A variant: a peak that equals the sensitivity is loud.
IsLoud_AtLeast(peak, cfg) == peak >= cfg.sensitivity

\* The comparison that makes a tick loud.
IsLoud(peak, cfg) == peak > cfg.sensitivity

\* A variant: a tick whose desired status is the current one keeps the
\* accumulator.
StateMachine_NoReset(cfg, peak, vs, to, ev, tr) ==
  LET status == VolumeStatusNew(IsLoud(peak, cfg))
  IN  IF status # vs
        THEN IF IsTimeout(status, to + TICK)
               THEN [ volume_status |-> Toggle(vs),
                      expect_volume |-> StatusVolume(Toggle(vs), cfg),
                      timeout |-> 0, transform |-> TRUE, flipped |-> TRUE ]
               ELSE [ volume_status |-> vs, expect_volume |-> ev,
                      timeout |-> to + TICK, transform |-> tr, flipped |-> FALSE ]
        ELSE [ volume_status |-> vs, expect_volume |-> ev,
               timeout |-> to, transform |-> tr, flipped |-> FALSE ]

\* The hysteresis step of one tick.
StateMachine(cfg, peak, vs, to, ev, tr) ==
  LET status == VolumeStatusNew(IsLoud(peak, cfg))
  IN  IF status # vs
        THEN IF IsTimeout(status, to + TICK)
               THEN [ volume_status |-> Toggle(vs),
                      expect_volume |-> StatusVolume(Toggle(vs), cfg),
                      timeout |-> 0, transform |-> TRUE, flipped |-> TRUE ]
               ELSE [ volume_status |-> vs, expect_volume |-> ev,
                      timeout |-> to + TICK, transform |-> tr, flipped |-> FALSE ]
        ELSE [ volume_status |-> vs, expect_volume |-> ev,
               timeout |-> 0, transform |-> tr, flipped |-> FALSE ]

\* The fader's test: the session is farther than one step from the target.
FarFrom(volume, expect) == Abs(F32Sub(expect, volume)) > TRANSFORM_SPEED

FadeVolume_NoSnap(volume, expect) ==
  IF volume = expect THEN expect
  ELSE F32Add(volume, Sign(F32Sub(expect, volume)) * TRANSFORM_SPEED)

FadeVolume_Jump(volume, expect) == expect

\* The volume the fader writes to a session.
FadeVolume(volume, expect) ==
  IF FarFrom(volume, expect)
    THEN F32Add(volume, Sign(F32Sub(expect, volume)) * TRANSFORM_SPEED)
    ELSE expect

\* The sessions' volumes after the fader wrote those of the set `written`.
FadeWrite(vol, written, expect) ==
  [id \in DOMAIN vol |-> IF id \in written THEN FadeVolume(vol[id], expect) ELSE vol[id]]

\* A variant: no target is counted as still fading.
Fadeing_Zero(vol, targets, expect) == 0

\* The fader's count of the targets still fading.
Fadeing(vol, targets, expect) == Cardinality({id \in targets : FarFrom(vol[id], expect)})

ForceReload_Never(t) == FALSE

\* The argument of the tick's sync call: every FORCE_RELOAD_TICKS-th tick forces.
ForceReload(t) == (t % FORCE_RELOAD_TICKS) = 0

\* The peaks a session's meter can report in a tick: silence, the default
\* threshold itself, and a level above it.
PeakChoices == {0, F32FromPercent(10), F32FromPercent(50)}

\* What the ticks so far did (read by the properties only; the loop never
\* reads it).  The fields about the runs of loud or quiet ticks are kept by
\* the specification that observes "runs", those about the fade since the
\* last flip by the one that observes "fade", those about the sync call of
\* the tick by the one that observes "sync", the age of a stale snapshot by the
\* one that observes "force".  The last five fields are about sync calls made
\* outside the loop: the run of undisturbed unforced calls, and the
\* notifications raised during a call with no fetch begun after them.  With
\* order set, the last six fields are kept: the command the last tick took
\* ("Wake" for the one that ended a suspension),
\* whether it changed the configuration, the command queued behind it, the
\* configuration held when the loop suspended, and the commands discarded
\* since, and with them (kept) the status, the accumulator, the fade target,
\* the armed flag, the configuration and the tick counter of that moment.
\* joined, kept by the specification that observes "fade", holds the targets
\* that were not in the snapshot of the tick before when they were first
\* classified with the fader armed.
\* first, kept with it, holds the targets of the first tick.
\* readings, kept by the specification that observes "peak" together with
\* peak, holds what the meter of each session read in the last tick returned.
\* registered is what the last call of DefaultDerive::register returned.
\* armed and flipped are kept always: the fader was armed when the fade
\* step of the last tick began, and the status flipped in it.  peak, the
\* measured peak of the last tick, is kept by the specification that observes
\* "status" and with order set.  The specification that observes "status"
\* also keeps everAbove (some peak was above the sensitivity), loud and streak
\* (the last peak was, and the run of ticks alike in that, counted up to 30),
\* flipAge (the ticks since the last flip, counted up to 30) and gap (on a
\* flip, the ticks since the flip before).
HistInit ==
  [ everLoud |-> FALSE,
    runKind |-> "none", runLen |-> 0, runStatus |-> "Restore", runTimeout |-> 0,
    runFlips |-> 0,
    sinceFlip |-> 0, fadeIds |-> {},
    off0 |-> [id \in SessionIds |-> 0],
    preVol |-> [id \in SessionIds |-> 0],
    targets |-> {}, measured |-> {}, matched |-> {},
    rd_fail |-> {}, wr_fail |-> {}, written |-> {},
    suspended |-> FALSE, updMidFade |-> FALSE,
    sync_ok |-> TRUE, sync_pre |-> <<>>, forced |-> FALSE,
    owed_resolve |-> FALSE, owed_enum |-> FALSE, was_owed |-> FALSE, retried |-> FALSE,
    stale_age |-> 0,
    quiet_call |-> FALSE, run |-> 0, first_snap |-> <<>>,
    unfetched_d |-> FALSE, unfetched_s |-> FALSE,
    order |-> FALSE, last |-> "none", changed |-> FALSE, behind |-> "none",
    held |-> <<>>, discarded |-> {},
    kept |-> <<>>, joined |-> {}, first |-> {}, readings |-> <<>>,
    registered |-> "none",
    armed |-> FALSE, flipped |-> FALSE, peak |-> 0,
    everAbove |-> FALSE, streak |-> 0, loud |-> FALSE,
    flipAge |-> RESOTRE_TIMEOUT \div TICK, gap |-> 0 ]

\* The sessions of the snapshot whose name contains an entry of the one list
\* and an entry of the other.
Matching(sessions, list1, list2) ==
  { sessions[i].id : i \in
      { i \in 1..Len(sessions) :
          /\ \E k \in 1..Len(list1) : Contains(sessions[i].name, list1[k])
          /\ \E k \in 1..Len(list2) : Contains(sessions[i].name, list2[k]) } }

\* A variant: the newest command is taken first.
Recv_Newest(q) == [cmd |-> q[Len(q)], rest |-> SubSeq(q, 1, Len(q) - 1)]

\* Receiver::try_recv and Receiver::recv on a channel that holds q: the oldest
\* command, and what stays queued.
Recv(q) == [cmd |-> Head(q), rest |-> Tail(q)]

\* What h.discarded keeps of a command dropped by the suspended worker.
Discard(cmd) ==
  IF cmd[1] = "Update" /\ cmd[2] = config THEN "SameUpdate" ELSE cmd[1]

\* One pass of the loop body after the command match (deamon.rs, "running
\* daemon"): sync, classify, hysteresis step, fade step, tick counter.
\* cfg is the configuration in force, faults allows the audio calls to fail,
\* observe, susp and upd only decide what h records.
Tick(cfg, faults, observe, susp, upd) ==
  LET force == ForceReload(ticks)
  IN
  \E fail_default \in (IF faults /\ SyncResolves(device, force) THEN BOOLEAN ELSE {FALSE}),
     fail_enum \in (IF faults /\ SyncEnumerates(device, force) THEN BOOLEAN ELSE {FALSE}) :
    \E synced \in {DeviceSync(device, force, os_default, os_live, fail_default, fail_enum)} :
    \E sessions \in {CurrentSessions(synced.dev)} :
    LET checked == { sessions[i].id : i \in
                       {i \in 1..Len(sessions) : NeedCheck(cfg, sessions[i].name)} }
        readings == IF faults THEN PeakChoices \cup {PeakErr} ELSE PeakChoices
        targets == Targets(cfg, sessions)
    IN
    \E peaks \in [checked -> readings] :
      \E peak \in {MeasuredPeak(cfg, sessions, peaks)} :
      \E sm \in {StateMachine(cfg, peak, volume_status, timeout, expect_volume, transform)} :
      LET \* A failed get_volume panics (unwrap): the first one ends the loop.
          unreadable == IF faults /\ sm.transform
                          THEN {{}} \cup {{id} : id \in targets}
                          ELSE {{}}
      IN
      \E rd_fail \in unreadable :
        \* The targets the HashSet yielded before the panic, in its unspecified
        \* order, are done; the others are not.
        \E done \in (IF rd_fail = {} THEN {targets} ELSE SUBSET (targets \ rd_fail)) :
          \E wr_fail \in (IF faults /\ sm.transform THEN SUBSET done ELSE {{}}) :
            LET panicked == rd_fail # {}
                written == IF sm.transform THEN done \ wr_fail ELSE {}
                kind == IF IsLoud(peak, cfg) THEN "loud" ELSE "quiet"
                same == h.runKind = kind
                runs == observe = "runs"
                fade == observe = "fade"
                sync == observe = "sync"
                aged == observe = "force"
            IN
            /\ device' = synced.dev
            /\ volume_status' = sm.volume_status
            /\ expect_volume' = sm.expect_volume
            /\ timeout' = sm.timeout
            /\ os_volume' = FadeWrite(os_volume, written, sm.expect_volume)
            /\ transform' = IF panicked THEN TRUE
                            ELSE IF sm.transform
                                    /\ Fadeing(os_volume, targets, sm.expect_volume) = 0
                              THEN FALSE
                            ELSE sm.transform
            /\ ticks' = IF panicked THEN ticks ELSE ticks + 1
            /\ mode' = IF panicked THEN "Panicked" ELSE "Running"
            /\ h' = [ h EXCEPT
                 !.everLoud = runs /\ (h.everLoud \/ ~(peak < cfg.sensitivity)),
                 !.runKind = IF runs THEN kind ELSE "none",
                 !.runLen = IF ~runs THEN 0 ELSE IF same THEN h.runLen + 1 ELSE 1,
                 !.runStatus = IF runs /\ ~same THEN volume_status ELSE h.runStatus,
                 !.runTimeout = IF runs /\ ~same THEN timeout ELSE h.runTimeout,
                 !.runFlips = IF ~runs THEN 0
                              ELSE (IF same THEN h.runFlips ELSE 0)
                                     + (IF sm.flipped THEN 1 ELSE 0),
                 !.sinceFlip = IF ~fade THEN 0
                               ELSE IF sm.flipped THEN 1
                               ELSE IF h.sinceFlip > 0 THEN h.sinceFlip + 1
                               ELSE 0,
                 !.fadeIds = IF ~fade THEN {}
                             ELSE IF sm.flipped THEN written
                             ELSE IF sm.transform THEN h.fadeIds \cap written
                             ELSE h.fadeIds \cap targets,
                 !.off0 = IF fade /\ sm.flipped
                            THEN [id \in SessionIds |->
                                    Abs(sm.expect_volume - os_volume[id])]
                            ELSE h.off0,
                 !.preVol = IF fade THEN os_volume ELSE h.preVol,
                 !.targets = targets,
                 !.measured = Measured(cfg, sessions, peaks),
                 !.matched = Matching(sessions, cfg.targets, cfg.exclude),
                 !.rd_fail = rd_fail, !.wr_fail = wr_fail, !.written = written,
                 !.suspended = susp,
                 !.updMidFade = IF upd THEN TRUE
                                ELSE IF sm.flipped THEN FALSE
                                ELSE h.updMidFade,
                 !.sync_ok = sync => synced.ok,
                 !.sync_pre = IF sync THEN Snapshot(device) ELSE <<>>,
                 !.forced = (sync \/ aged) /\ force,
                 !.owed_resolve = sync /\ ~force /\ SyncResolves(device, force)
                                    /\ fail_default,
                 !.owed_enum = sync /\ ~force /\ SyncEnumerates(device, force)
                                 /\ ~fail_default /\ fail_enum,
                 !.was_owed = h.owed_resolve \/ h.owed_enum,
                 !.retried = /\ h.owed_resolve => SyncResolves(device, force)
                             /\ h.owed_enum => SyncEnumerates(device, force),
                 !.stale_age = IF ~aged \/ Snapshot(synced.dev) = FreshSnapshot
                                 THEN 0 ELSE h.stale_age + 1,
                 !.last = IF ~h.order \/ queue = <<>> THEN "none"
                          ELSE IF mode = "Suspended" THEN "Wake"
                          ELSE Recv(queue).cmd[1],
                 !.changed = (h.order \/ observe = "status") /\ cfg # config,
                 !.behind = IF h.order /\ Len(queue) > 1
                              THEN Head(Recv(queue).rest)[1] ELSE "none",
                 !.joined = IF ~fade THEN {}
                            ELSE { id \in targets :
                                     \/ id \in h.joined
                                     \/ sm.transform /\ id \notin SessionsIds(device) },
                 !.first = IF fade /\ ticks = 1 THEN targets ELSE h.first,
                 !.armed = sm.transform,
                 !.flipped = sm.flipped,
                 !.peak = IF h.order \/ observe \in {"status", "peak"} THEN peak ELSE 0,
                 !.readings = IF observe = "peak" THEN peaks ELSE <<>>,
                 !.everAbove = observe = "status"
                                 /\ (h.everAbove \/ peak > cfg.sensitivity),
                 !.streak = IF observe # "status" THEN 0
                            ELSE IF (peak > cfg.sensitivity) = h.loud
                              THEN Min(h.streak + 1, RESOTRE_TIMEOUT \div TICK)
                            ELSE 1,
                 !.loud = observe = "status" /\ peak > cfg.sensitivity,
                 !.flipAge = IF observe # "status" THEN h.flipAge
                             ELSE IF sm.flipped THEN 0
                             ELSE Min(h.flipAge + 1, RESOTRE_TIMEOUT \div TICK),
                 !.gap = IF observe = "status" /\ sm.flipped
                           THEN h.flipAge + 1 ELSE 0 ]
            /\ UNCHANGED <<os_default, os_live>>

\* ------------------------------------------------------------------ commands

CmdResume == <<"Resume">>
CmdSuspend == <<"Suspend">>
CmdUpdate(cfg) == <<"Update", cfg>>

\* The receiving half exists while the worker thread lives.
ReceiverAlive == mode \in {"Running", "Suspended"}

\* Deamon::start
DeamonStart ==
  /\ sender_alive /\ ReceiverAlive /\ Len(queue) < MaxQueue
  /\ queue' = Append(queue, CmdResume)
  /\ UNCHANGED << mode, sender_alive, config, transform, ticks, volume_status,
                  expect_volume, timeout, device, os_default, os_live, os_volume, h >>

\* Deamon::stop
DeamonStop ==
  /\ sender_alive /\ ReceiverAlive /\ Len(queue) < MaxQueue
  /\ queue' = Append(queue, CmdSuspend)
  /\ UNCHANGED << mode, sender_alive, config, transform, ticks, volume_status,
                  expect_volume, timeout, device, os_default, os_live, os_volume, h >>

\* Deamon::update
DeamonUpdate(cfg) ==
  /\ sender_alive /\ ReceiverAlive /\ Len(queue) < MaxQueue
  /\ queue' = Append(queue, CmdUpdate(cfg))
  /\ UNCHANGED << mode, sender_alive, config, transform, ticks, volume_status,
                  expect_volume, timeout, device, os_default, os_live, os_volume, h >>

\* The Deamon handle, and with it the only Sender, is dropped.
DeamonDrop ==
  /\ sender_alive
  /\ sender_alive' = FALSE
  /\ UNCHANGED << mode, queue, config, transform, ticks, volume_status,
                  expect_volume, timeout, device, os_default, os_live, os_volume, h >>

Idle_KeepsRunning(next_mode, susp) ==
  /\ mode' = IF next_mode = "Stopped" THEN mode ELSE next_mode
  /\ h' = [h EXCEPT !.suspended = susp]
  /\ UNCHANGED << config, transform, ticks, volume_status, expect_volume, timeout,
                  device, os_default, os_live, os_volume >>

\* A variant: the accumulator is cleared.
Idle_ClearsTimeout(next_mode, susp) ==
  /\ mode' = next_mode
  /\ timeout' = 0
  /\ h' = [h EXCEPT !.suspended = susp,
                    !.kept = IF h.order /\ mode = "Running"
                               THEN << volume_status, timeout, expect_volume,
                                       transform, config, ticks >>
                               ELSE @]
  /\ UNCHANGED << config, transform, ticks, volume_status, expect_volume,
                  device, os_default, os_live, os_volume >>

\* The worker stops or blocks without running a tick.
Idle(next_mode, susp) ==
  /\ mode' = next_mode
  /\ h' = [h EXCEPT !.suspended = susp,
                    !.held = IF h.order /\ mode = "Running" THEN config ELSE @,
                    !.kept = IF h.order /\ mode = "Running"
                               THEN << volume_status, timeout, expect_volume,
                                       transform, config, ticks >>
                               ELSE @,
                    !.discarded = IF ~h.order THEN @
                                  ELSE IF mode = "Running" THEN {}
                                  ELSE IF queue # <<>>
                                    THEN @ \cup {Discard(Recv(queue).cmd)}
                                  ELSE @]
  /\ UNCHANGED << config, transform, ticks, volume_status, expect_volume, timeout,
                  device, os_default, os_live, os_volume >>

\* An Update consumed while a fade toward reduce_volume is in progress brings
\* another reduce_volume.
UpdatesMidFade(cfg) ==
  /\ volume_status = "Reduce" /\ transform
  /\ cfg.reduce_volume # config.reduce_volume

\* The iterations explored: up to the bound while commands can still be sent;
\* once the sender is dropped, as many more as there are commands left.
WithinTicks(max_ticks) == ticks <= max_ticks \/ ~sender_alive

\* A variant: an Update keeps the lists of the configuration it replaces.
Updated_KeepLists(cfg, new_config) ==
  [new_config EXCEPT !.targets = cfg.targets, !.exclude = cfg.exclude]

\* The configuration after an Update was consumed: config = new_config.
Updated(cfg, new_config) == new_config

\* A variant: the iteration that takes a Resume runs no tick.
WorkerIteration_ResumeSkipsTick(max_ticks, faults, observe) ==
  /\ mode = "Running"
  /\ WithinTicks(max_ticks)
  /\ UNCHANGED sender_alive
  /\ IF queue = <<>>
       THEN /\ UNCHANGED <<queue, config>>
            /\ IF sender_alive
                 THEN Tick(config, faults, observe, FALSE, FALSE)        \* Empty
                 ELSE Idle("Stopped", FALSE)                    \* Disconnected
       ELSE /\ queue' = Recv(queue).rest
            /\ CASE Recv(queue).cmd[1] = "Update" ->
                      /\ config' = Updated(config, Recv(queue).cmd[2])
                      /\ Tick(Updated(config, Recv(queue).cmd[2]), faults, observe, FALSE,
                              UpdatesMidFade(Recv(queue).cmd[2]))
                 [] Recv(queue).cmd[1] = "Suspend" ->
                      /\ UNCHANGED config
                      /\ Idle("Suspended", TRUE)
                 [] Recv(queue).cmd[1] = "Resume" ->
                      /\ UNCHANGED config
                      /\ Idle("Running", FALSE)

\* One iteration of 'main while Running: try_recv, the command match, the tick.
WorkerIteration(max_ticks, faults, observe) ==
  /\ mode = "Running"
  /\ WithinTicks(max_ticks)
  /\ UNCHANGED sender_alive
  /\ IF queue = <<>>
       THEN /\ UNCHANGED <<queue, config>>
            /\ IF sender_alive
                 THEN Tick(config, faults, observe, FALSE, FALSE)        \* Empty
                 ELSE Idle("Stopped", FALSE)                    \* Disconnected
       ELSE /\ queue' = Recv(queue).rest
            /\ CASE Recv(queue).cmd[1] = "Update" ->
                      /\ config' = Updated(config, Recv(queue).cmd[2])
                      /\ Tick(Updated(config, Recv(queue).cmd[2]), faults, observe, FALSE,
                              UpdatesMidFade(Recv(queue).cmd[2]))
                 [] Recv(queue).cmd[1] = "Suspend" ->
                      /\ UNCHANGED config
                      /\ Idle("Suspended", TRUE)
                 [] Recv(queue).cmd[1] = "Resume" ->
                      /\ UNCHANGED config
                      /\ Tick(config, faults, observe, FALSE, FALSE)

ResumesLoop_Any(cmd) == TRUE

\* A variant: a Suspend ends the blocking receive loop as a Resume does.
ResumesLoop_Toggle(cmd) == cmd[1] \in {"Resume", "Suspend"}

\* The command that ends the blocking receive loop of a suspended worker.
ResumesLoop(cmd) == cmd[1] = "Resume"

\* One blocking recv of the suspended worker; on Resume the iteration goes on
\* with its tick.
WorkerSuspendedRecv(max_ticks, faults, observe) ==
  /\ mode = "Suspended"
  /\ UNCHANGED <<sender_alive, config>>
  /\ IF queue = <<>>
       THEN /\ ~sender_alive
            /\ UNCHANGED queue
            /\ Idle("Stopped", h.suspended)
       ELSE /\ queue' = Recv(queue).rest
            /\ IF ResumesLoop(Recv(queue).cmd)
                 THEN /\ WithinTicks(max_ticks)
                      /\ Tick(config, faults, observe,
                              h.suspended /\ Recv(queue).cmd[1] # "Resume", FALSE)
                 ELSE Idle("Suspended", h.suspended)

\* ------------------------------------------------------------------ the audio subsystem at work

\* What a change of the audio subsystem, or a notification, does to the record
\* of the sync calls made outside the loop.
Disturbed(hh) == [hh EXCEPT !.quiet_call = FALSE, !.run = 0]

\* Another endpoint becomes the default one.  DeviceClient::OnDefaultDeviceChanged
\* try_sends on its channel of capacity 1, which a live receiver makes succeed
\* unless a token is waiting already; WinMixImmNotificationClient::
\* OnDefaultDeviceChanged sets derive_change.
OsDefaultDeviceChanged ==
  /\ \E e \in Endpoints \ {os_default} : os_default' = e
  /\ device' = IF device.kind = "Device"
                 THEN IF device.device_vcallback /\ device.device_receiver
                        THEN [device EXCEPT !.device_pending = TRUE]
                        ELSE device
                 ELSE IF device.notified
                        THEN [device EXCEPT !.derive_change = TRUE]
                        ELSE device
  /\ h' = IF device.kind = "DefaultDerive" /\ device.notified /\ device.pc # "idle"
            THEN [Disturbed(h) EXCEPT !.unfetched_d = TRUE]
            ELSE Disturbed(h)
  /\ UNCHANGED << mode, queue, sender_alive, config, transform, ticks, volume_status,
                  expect_volume, timeout, os_live, os_volume >>

\* A process opens a session.  SessionsClient::OnSessionCreated try_sends when
\* the session is on the endpoint whose manager holds the registration; the
\* client of a DefaultDerive has no callback for it.
OsSessionCreated(id) ==
  /\ id \notin os_live
  /\ os_live' = os_live \cup {id}
  /\ device' = IF /\ device.kind = "Device"
                    /\ device.sessions_vcallback /\ device.sessions_receiver
                    /\ SessionTable[id].dev = device.manager
                 THEN [device EXCEPT !.sessions_pending = TRUE]
                 ELSE device
  /\ h' = Disturbed(h)
  /\ UNCHANGED << mode, queue, sender_alive, config, transform, ticks, volume_status,
                  expect_volume, timeout, os_default, os_volume >>

\* A session expires: no callback of the program is told.
OsSessionExpired(id) ==
  /\ id \in os_live
  /\ os_live' = os_live \ {id}
  /\ h' = Disturbed(h)
  /\ UNCHANGED << mode, queue, sender_alive, config, transform, ticks, volume_status,
                  expect_volume, timeout, device, os_default, os_volume >>

\* The state of an endpoint changes: WinMixImmNotificationClient::
\* OnDeviceStateChanged sets session_change (DeviceClient ignores the event).
OsDeviceStateChanged ==
  /\ device.kind = "DefaultDerive" /\ device.notified
  /\ device' = [device EXCEPT !.ssession_change = TRUE]
  /\ h' = IF device.pc # "idle"
            THEN [Disturbed(h) EXCEPT !.unfetched_s = TRUE]
            ELSE Disturbed(h)
  /\ UNCHANGED << mode, queue, sender_alive, config, transform, ticks, volume_status,
                  expect_volume, timeout, os_default, os_live, os_volume >>

\* ------------------------------------------------------------------ sync calls outside the loop

\* The record of the calls after a call returned with the snapshot snap.
Returned(hh, snap) ==
  [ hh EXCEPT !.quiet_call = FALSE,
              !.run = IF ~hh.quiet_call THEN 0 ELSE IF hh.run = 0 THEN 1 ELSE 2,
              !.first_snap = IF hh.quiet_call /\ hh.run = 0 THEN snap ELSE hh.first_snap ]

\* Device::sync called with the argument force.
DeviceSyncCall(force) ==
  /\ device.kind = "Device"
  /\ \E fail_default, fail_enum \in BOOLEAN :
       device' = DeviceSync(device, force, os_default, os_live, fail_default, fail_enum).dev
  /\ h' = Returned([h EXCEPT !.quiet_call =
                                /\ ~force
                                /\ ~(device.device_receiver /\ device.device_pending)
                                /\ ~(device.sessions_receiver /\ device.sessions_pending)],
                   Snapshot(device'))
  /\ UNCHANGED << mode, queue, sender_alive, config, transform, ticks, volume_status,
                  expect_volume, timeout, os_default, os_live, os_volume >>

\* Derive::sessions: the same enumeration as Device::get_sessions.
DeriveSessions(dev, live) == GetSessions(dev, live)

\* DefaultDerive::from_winmix, and the sync call in progress on the snapshot:
\* pc is the line of default.rs it is at, force its argument, derive_changed
\* and ssession_changed its locals.  notified: a client made by
\* get_notification_client is registered with the endpoint enumerator.
\* client: the field client is Some.
DefaultDeriveFromWinmix(default, live, notified) ==
  [ kind |-> "DefaultDerive", derive |-> default,
    sessions |-> DeriveSessions(default, live),
    derive_change |-> FALSE, ssession_change |-> FALSE, notified |-> notified,
    client |-> FALSE,
    pc |-> "idle", force |-> FALSE, derive_changed |-> FALSE, ssession_changed |-> FALSE ]

\* DefaultDerive::register; fail_enumerator: get_derive_enumerator fails;
\* fail_register: RegisterEndpointNotificationCallback fails.
DefaultDeriveRegister(d, fail_enumerator, fail_register) ==
  IF fail_enumerator THEN [dev |-> d, ok |-> FALSE]
  ELSE IF ~(~d.client)                       \* if !self.client.is_none()
    THEN IF fail_register THEN [dev |-> d, ok |-> FALSE]
         ELSE [dev |-> [d EXCEPT !.notified = TRUE, !.client = TRUE], ok |-> TRUE]
  ELSE [dev |-> d, ok |-> TRUE]

\* DefaultDerive::register called between two sync calls.
DeriveRegisterCall ==
  /\ device.kind = "DefaultDerive" /\ device.pc = "idle"
  /\ \E fail_enumerator, fail_register \in BOOLEAN :
       \E r \in {DefaultDeriveRegister(device, fail_enumerator, fail_register)} :
         /\ device' = r.dev
         /\ h' = [h EXCEPT !.registered = IF r.ok THEN "Ok" ELSE "Err"]
  /\ UNCHANGED << mode, queue, sender_alive, config, transform, ticks, volume_status,
                  expect_volume, timeout, os_default, os_live, os_volume >>

\* The snapshot a DefaultDerive holds.
DeriveSnapshot(d) == <<d.derive, d.sessions>>

\* A step of DefaultDerive::sync that changes the snapshot record to d and the
\* record of the calls to hh.
SyncStep(d, hh) ==
  /\ device' = d
  /\ h' = IF d.pc = "idle" THEN Returned(hh, DeriveSnapshot(d)) ELSE hh
  /\ UNCHANGED << mode, queue, sender_alive, config, transform, ticks, volume_status,
                  expect_volume, timeout, os_default, os_live, os_volume >>

\* default.rs:41, the call and the first read of a dirty flag.
Sync41(force) ==
  /\ device.kind = "DefaultDerive" /\ device.pc = "idle"
  /\ SyncStep([device EXCEPT !.pc = "L42", !.force = force,
                              !.derive_changed = force \/ device.derive_change],
              [h EXCEPT !.quiet_call = ~force /\ ~device.derive_change
                                         /\ ~device.ssession_change,
                        !.run = IF force \/ device.derive_change
                                         \/ device.ssession_change
                                  THEN 0 ELSE h.run,
                        !.unfetched_d = FALSE, !.unfetched_s = FALSE])

\* default.rs:42, the second read.
Sync42 ==
  /\ device.kind = "DefaultDerive" /\ device.pc = "L42"
  /\ LET changed == device.force \/ device.ssession_change
     IN  SyncStep([device EXCEPT !.ssession_changed = changed,
                                 !.pc = IF device.derive_changed THEN "L45"
                                        ELSE IF changed THEN "L60" ELSE "idle"],
                  h)

\* default.rs:45-51, the default endpoint is fetched, or not.
Sync45 ==
  /\ device.kind = "DefaultDerive" /\ device.pc = "L45"
  /\ \E fail \in BOOLEAN :
       SyncStep(IF fail THEN [device EXCEPT !.pc = "L53"]
                ELSE [device EXCEPT !.pc = "L53", !.derive = os_default,
                                    !.ssession_changed = TRUE],
                [h EXCEPT !.unfetched_d = h.unfetched_d /\ fail])

\* default.rs:53-56, derive_change is cleared.
Sync53 ==
  /\ device.kind = "DefaultDerive" /\ device.pc = "L53"
  /\ SyncStep([device EXCEPT !.derive_change = FALSE,
                              !.pc = IF device.ssession_changed THEN "L60" ELSE "idle"],
              h)

\* default.rs:60-65, the sessions are fetched, or not.
Sync60 ==
  /\ device.kind = "DefaultDerive" /\ device.pc = "L60"
  /\ \E fail \in BOOLEAN :
       SyncStep(IF fail THEN [device EXCEPT !.pc = "L67"]
                ELSE [device EXCEPT !.pc = "L67",
                                    !.sessions = DeriveSessions(device.derive, os_live)],
                [h EXCEPT !.unfetched_s = h.unfetched_s /\ fail])

\* default.rs:67-70, ssession_change is cleared, and the call returns.
Sync67 ==
  /\ device.kind = "DefaultDerive" /\ device.pc = "L67"
  /\ SyncStep([device EXCEPT !.ssession_change = FALSE, !.pc = "idle"], h)

\* ------------------------------------------------------------------ specifications

\* A variant: the fade target starts as the reduce volume.
ExpectInit_Reduce(cfg) == cfg.reduce_volume

\* The fade target the worker starts with.
ExpectInit(cfg) == cfg.resotre_volume

\* The state when the worker enters its loop.
InitState(configs, lives, volumes, faults) ==
  \* winmix.get_default().expect(..): the worker panics before its loop
  /\ mode \in (IF faults THEN {"Running", "Panicked"} ELSE {"Running"})
  /\ queue = <<>>
  /\ sender_alive = TRUE
  /\ config \in configs
  /\ transform = TRUE
  /\ ticks = 1
  /\ volume_status = "Restore"
  /\ expect_volume = ExpectInit(config)
  /\ timeout = 0
  /\ os_default = 1
  /\ os_live \in lives
  /\ os_volume \in volumes
  /\ \E fail_device, fail_register, fail_enum \in (IF faults THEN BOOLEAN ELSE {FALSE}) :
       device = DeviceRegister(DeviceNew(os_default), os_live,
                               fail_device, fail_register, fail_enum).dev

InitWith(configs, lives, volumes, faults) ==
  /\ InitState(configs, lives, volumes, faults)
  /\ h = HistInit

\* The configurations of Spec: both make game a target.
Configs ==
  { MakeConfig(<<Str_game>>, <<Str_am>>, 100, 100, 30, 10),
    MakeConfig(<<Str_game>>, <<>>, 100, 80, 50, 10) }

Volumes == [SessionIds -> {F32FromPercent(100)}]

Init == InitWith(Configs, {{1, 2}}, Volumes, FALSE)

Next ==
  \/ DeamonStart
  \/ DeamonStop
  \/ \E cfg \in Configs : DeamonUpdate(cfg)
  \/ DeamonDrop
  \/ WorkerIteration(MaxTicks, FALSE, "commands")
  \/ WorkerSuspendedRecv(MaxTicks, FALSE, "commands")

Spec == Init /\ [][Next]_vars

\* The worker thread is scheduled again and again: its iterations and its
\* blocking receive are taken whenever they stay possible.
InitLive == InitWith({ConfigNew}, {{1, 2}}, Volumes, FALSE)

NextLive ==
  \/ DeamonStart
  \/ DeamonStop
  \/ \E cfg \in Configs : DeamonUpdate(cfg)
  \/ DeamonDrop
  \/ WorkerIteration(MaxTicksLive, FALSE, "commands")
  \/ WorkerSuspendedRecv(MaxTicksLive, FALSE, "commands")

SpecLive ==
  /\ InitLive /\ [][NextLive]_vars
  /\ WF_vars(WorkerIteration(MaxTicksLive, FALSE, "commands"))
  /\ WF_vars(WorkerSuspendedRecv(MaxTicksLive, FALSE, "commands"))

\* The same commands and worker, with the record of the commands taken and
\* discarded kept.
InitOrder ==
  /\ InitState({ConfigNew}, {{1, 2}}, Volumes, FALSE)
  /\ h = [HistInit EXCEPT !.order = TRUE]

NextOrder ==
  \/ DeamonStart
  \/ DeamonStop
  \/ \E cfg \in Configs : DeamonUpdate(cfg)
  \/ DeamonDrop
  \/ WorkerIteration(MaxTicksOrder, FALSE, "commands")
  \/ WorkerSuspendedRecv(MaxTicksOrder, FALSE, "commands")

SpecOrder == InitOrder /\ [][NextOrder]_vars

\* The sessions that come and go in SpecEnv and SpecForce.
Transient == {2, 6}

\* A configuration under which no session is a target and every session is
\* excluded from the measurement: every name has an "m".
Str_m == <<"m">>

ConfigQuiet == MakeConfig(<<>>, <<Str_m>>, 100, 100, 50, 10)

\* The loop with the audio subsystem changing under it and its calls free to
\* fail; no session is a target.
InitEnv == InitWith({ConfigNew}, {{1, 2}}, Volumes, TRUE)

NextEnv ==
  \/ OsDefaultDeviceChanged
  \/ \E id \in Transient : OsSessionCreated(id)
  \/ \E id \in Transient : OsSessionExpired(id)
  \/ WorkerIteration(MaxTicksEnv, TRUE, "sync")

SpecEnv == InitEnv /\ [][NextEnv]_vars

\* The loop up to its first forced resync, every audio call succeeding, the
\* audio subsystem changing during the first iterations only.
InitForce == InitWith({ConfigQuiet}, {{1, 2}}, Volumes, FALSE)

NextForce ==
  \/ ticks <= MaxTicksChange /\ OsDefaultDeviceChanged
  \/ ticks <= MaxTicksChange /\ \E id \in Transient : OsSessionCreated(id)
  \/ ticks <= MaxTicksChange /\ \E id \in Transient : OsSessionExpired(id)
  \/ WorkerIteration(MaxTicksForce, FALSE, "force")

SpecForce == InitForce /\ [][NextForce]_vars

\* The sync calls alone, on a snapshot of either type, with the audio
\* subsystem changing between and during them.
TransientSync == {4, 5, 6}

InitSync ==
  /\ mode = "Suspended"
  /\ queue = <<>>
  /\ sender_alive = TRUE
  /\ config = ConfigNew
  /\ transform = TRUE
  /\ ticks = 1
  /\ volume_status = "Restore"
  /\ expect_volume = config.resotre_volume
  /\ timeout = 0
  /\ os_default = 1
  /\ os_live \in {{1, 2}, {1, 4, 5}}
  /\ os_volume \in Volumes
  /\ \/ \E fail_device, fail_register, fail_enum \in BOOLEAN :
          device = DeviceRegister(DeviceNew(os_default), os_live,
                                  fail_device, fail_register, fail_enum).dev
     \/ device = DefaultDeriveFromWinmix(os_default, os_live, TRUE)
  /\ h = HistInit

NextSync ==
  \/ OsDefaultDeviceChanged
  \/ \E id \in TransientSync : OsSessionCreated(id)
  \/ \E id \in TransientSync : OsSessionExpired(id)
  \/ OsDeviceStateChanged
  \/ \E force \in BOOLEAN : DeviceSyncCall(force)
  \/ \E force \in BOOLEAN : Sync41(force)
  \/ Sync42
  \/ Sync45
  \/ Sync53
  \/ Sync60
  \/ Sync67

SpecSync == InitSync /\ [][NextSync]_vars

\* A DefaultDerive from its creation on: register and sync calls, with the
\* audio subsystem changing between and during them.
InitDerive ==
  /\ mode = "Suspended"
  /\ queue = <<>>
  /\ sender_alive = TRUE
  /\ config = ConfigNew
  /\ transform = TRUE
  /\ ticks = 1
  /\ volume_status = "Restore"
  /\ expect_volume = config.resotre_volume
  /\ timeout = 0
  /\ os_default = 1
  /\ os_live \in {{1, 2}}
  /\ os_volume \in Volumes
  /\ device = DefaultDeriveFromWinmix(os_default, os_live, FALSE)
  /\ h = HistInit

NextDerive ==
  \/ DeriveRegisterCall
  \/ OsDefaultDeviceChanged
  \/ OsSessionCreated(6)
  \/ OsSessionExpired(6)
  \/ \E force \in BOOLEAN : Sync41(force)
  \/ Sync42
  \/ Sync45
  \/ Sync53
  \/ Sync60
  \/ Sync67

SpecDerive == InitDerive /\ [][NextDerive]_vars

\* The loop over runs of ticks long enough for both timeouts, with
\* configurations that name no target replacing one another: they differ in
\* the sessions measured, in the sensitivity and in both volumes.
Str_music == <<"m", "u", "s", "i", "c">>

StatusConfigs ==
  { ConfigNew, MakeConfig(<<>>, <<Str_music>>, 100, 80, 30, 50) }

InitStatus == InitWith(StatusConfigs, {{1, 2}}, Volumes, FALSE)

NextStatus ==
  \/ queue = <<>> /\ \E cfg \in StatusConfigs : DeamonUpdate(cfg)
  \/ WorkerIteration(MaxTicksStatus, FALSE, "status")

SpecStatus == InitStatus /\ [][NextStatus]_vars

\* The loop with every audio call succeeding while the session of gamebar.exe,
\* a target like that of game.exe, is created at some moment, at a volume
\* above or below the fade target.
JoinConfig == MakeConfig(<<Str_game>>, <<>>, 5, 100, 70, 10)

JoinVolumes ==
  { [id \in SessionIds |-> IF id = 3 THEN v ELSE F32FromPercent(100)] :
      v \in {F32FromPercent(100), F32FromPercent(40)} }

InitJoin == InitWith({JoinConfig}, {{1, 2}}, JoinVolumes, FALSE)

NextJoin ==
  \/ OsSessionCreated(3)
  \/ WorkerIteration(MaxTicksJoin, FALSE, "fade")

SpecJoin == InitJoin /\ [][NextJoin]_vars

\* The first ticks of the worker, every audio call succeeding: the session of
\* game.exe, a target under one configuration, starts on or off the restore
\* volume; that of gamebar.exe, the only target under the other, is created
\* at some moment.
Str_bar == <<"b", "a", "r">>

StartConfigs ==
  { MakeConfig(<<Str_game>>, <<>>, 5, 100, 70, 10),
    MakeConfig(<<Str_bar>>, <<>>, 5, 100, 70, 10) }

StartVolumes ==
  { [id \in SessionIds |-> IF id = 1 THEN v
                           ELSE IF id = 3 THEN F32FromPercent(40)
                           ELSE F32FromPercent(100)] :
      v \in {F32FromPercent(100), F32FromPercent(80)} }

InitStart == InitWith(StartConfigs, {{1, 2}}, StartVolumes, FALSE)

NextStart ==
  \/ OsSessionCreated(3)
  \/ WorkerIteration(MaxTicksStart, FALSE, "fade")

SpecStart == InitStart /\ [][NextStart]_vars

\* The loop alone, its audio calls free to fail, with four sessions: under
\* the first configuration those of game.exe and of the system sounds are
\* measured, under the second none is.
Str_mus == <<"m", "u", "s">>

PeakConfigs ==
  { MakeConfig(<<Str_bar>>, <<Str_mus>>, 100, 100, 50, 10),
    MakeConfig(<<Str_game>>, <<Str_m>>, 100, 100, 50, 10) }

InitPeak == InitWith(PeakConfigs, {{1, 2, 3, 4}}, Volumes, TRUE)

NextPeak == WorkerIteration(MaxTicksPeak, TRUE, "peak")

SpecPeak == InitPeak /\ [][NextPeak]_vars

\* The commands and the worker with the same four sessions and
\* configurations, every audio call succeeding: an Update moves the session
\* of game.exe between the targets and the measured sessions.
InitFrame == InitWith(PeakConfigs, {{1, 2, 3, 4}}, Volumes, FALSE)

NextFrame ==
  \/ DeamonStart
  \/ DeamonStop
  \/ \E cfg \in PeakConfigs : DeamonUpdate(cfg)
  \/ DeamonDrop
  \/ WorkerIteration(MaxTicksFrame, FALSE, "commands")
  \/ WorkerSuspendedRecv(MaxTicksFrame, FALSE, "commands")

SpecFrame == InitFrame /\ [][NextFrame]_vars

\* The loop alone, its audio calls free to fail, with three sessions.
InitFaults == InitWith(Configs, {{1, 2, 3}}, Volumes, TRUE)

NextFaults == WorkerIteration(MaxTicksFaults, TRUE, "faults")

SpecFaults == InitFaults /\ [][NextFaults]_vars

\* The loop alone with every audio call succeeding and the default
\* configuration, over runs of ticks long enough for both timeouts.
InitRuns == InitWith({ConfigNew}, {{1, 2}}, Volumes, FALSE)

NextRuns == WorkerIteration(MaxTicksLong, FALSE, "runs")

SpecRuns == InitRuns /\ [][NextRuns]_vars

\* The loop alone with every audio call succeeding, over a flip and the whole
\* fade that follows it.  The configurations: the scenario of the
\* specification with its target written with and without the extension; a
\* fade from 0.2 to 0 under the default transform_speed; a fade upwards; the
\* scenario with a transform_speed of 0.1.
FadeConfigs ==
  { MakeConfig(<<Str_game_exe>>, <<>>, 5, 100, 30, 10),
    MakeConfig(<<Str_game>>, <<>>, 5, 100, 30, 10),
    MakeConfig(<<Str_game>>, <<>>, 100, 20, 0, 10),
    MakeConfig(<<Str_game>>, <<>>, 5, 30, 100, 10),
    MakeConfig(<<Str_game>>, <<>>, 10, 100, 30, 10) }

FadeVolumes ==
  { [id \in SessionIds |-> IF id = 1 THEN v ELSE F32FromPercent(100)] :
      v \in {F32FromPercent(100), F32FromPercent(20)} }

InitFade == InitWith(FadeConfigs, {{1, 2}}, FadeVolumes, FALSE)

NextFade == WorkerIteration(MaxTicksFade, FALSE, "fade")

SpecFade == InitFade /\ [][NextFade]_vars

\* The fade with two audio sessions of the game process on the endpoint.
TwinConfigs ==
  { MakeConfig(<<Str_game>>, <<>>, 5, 100, 30, 10),
    MakeConfig(<<Str_game>>, <<>>, 100, 80, 100, 10) }

TwinVolumes ==
  { [id \in SessionIds |-> IF id = 7 THEN v ELSE F32FromPercent(100)] :
      v \in {F32FromPercent(100), F32FromPercent(80)} }

InitTwin == InitWith(TwinConfigs, {{1, 2, 7}}, TwinVolumes, FALSE)

NextTwin == WorkerIteration(MaxTicksTwin, FALSE, "fade")

SpecTwin == InitTwin /\ [][NextTwin]_vars

\* ------------------------------------------------------------------ properties

CeilDiv(a, b) == (a + b - 1) \div b

\* What f32 rounding can add up to over one fade: 2^-21.
F32Tolerance == 2^7

Near(a, b) == Abs(a - b) <= F32Tolerance

\* C1: as long as every tick so far measured a peak strictly below the
\* sensitivity, the volume status is Restore.
C1_NoSpuriousDucking == ~h.everLoud => volume_status = "Restore"

C1_Witness == ~h.everLoud /\ h.runKind = "quiet" /\ h.runLen >= 30

\* C2: in a run of consecutive loud ticks that began in Restore with the
\* accumulator at 0, the status is still Restore and has not flipped while the
\* run is shorter than the Reduce-pending timeout, and from the tick that
\* reaches the timeout on it is Reduce and has flipped exactly once.
C2_ReduceDebounce ==
  (h.runKind = "loud" /\ h.runStatus = "Restore" /\ h.runTimeout = 0) =>
    IF h.runLen * TICK < REDUCE_TIMEOUT
      THEN volume_status = "Restore" /\ h.runFlips = 0
      ELSE volume_status = "Reduce" /\ h.runFlips = 1

C2_Witness ==
  /\ h.runKind = "loud" /\ h.runStatus = "Restore" /\ h.runTimeout = 0
  /\ h.runLen >= 5 /\ h.runFlips = 1 /\ volume_status = "Reduce"

\* C3: in a run of consecutive quiet ticks that began in Reduce with the
\* accumulator at 0, the status is still Reduce and has not flipped while the
\* run is shorter than the Restore-pending timeout, and from the tick that
\* reaches the timeout on it is Restore and has flipped exactly once.
C3_RestoreDebounce ==
  (h.runKind = "quiet" /\ h.runStatus = "Reduce" /\ h.runTimeout = 0) =>
    IF h.runLen * TICK < RESOTRE_TIMEOUT
      THEN volume_status = "Reduce" /\ h.runFlips = 0
      ELSE volume_status = "Restore" /\ h.runFlips = 1

C3_Witness ==
  /\ h.runKind = "quiet" /\ h.runStatus = "Reduce" /\ h.runTimeout = 0
  /\ h.runLen * TICK > RESOTRE_TIMEOUT /\ h.runFlips = 1 /\ volume_status = "Restore"

\* The last tick brought the session nearer to the fade target without passing
\* it, or left it on the target.
SteppedNearer(id) ==
  LET before == h.preVol[id] - expect_volume
      after == os_volume[id] - expect_volume
  IN  /\ before = 0 => after = 0
      /\ before # 0 => Abs(after) < Abs(before)
      /\ before > 0 => after >= 0
      /\ before < 0 => after <= 0

\* The fade of a session since the last flip: every step nearer, and on the
\* target from the given number of ticks on.
FadesWithin(id, n) ==
  /\ SteppedNearer(id)
  /\ h.sinceFlip >= n => os_volume[id] = expect_volume

\* C4 as stated: since the last flip every target session was stepped nearer
\* to the fade target on every tick, without passing it, and is on it from
\* tick ceil(|initialOffset| / stepSize) on.
C4_Claim ==
  \A id \in h.fadeIds : FadesWithin(id, CeilDiv(h.off0[id], TRANSFORM_SPEED))

\* C4 amended: the same with one more tick, which f32 rounding can cost.
C4_FadeConverges ==
  \A id \in h.fadeIds : FadesWithin(id, CeilDiv(h.off0[id], TRANSFORM_SPEED) + 1)

C4_Witness ==
  \E id \in h.fadeIds :
    /\ h.off0[id] > 2 * TRANSFORM_SPEED
    /\ h.sinceFlip = CeilDiv(h.off0[id], TRANSFORM_SPEED) + 1
    /\ os_volume[id] = expect_volume
    /\ h.preVol[id] = expect_volume

\* The game.exe session, at volume 1.0 when the status flipped to Reduce under
\* the configuration cfg, has since gone down by 0.05 a tick, the tick of the
\* flip being the first, and is on 0.30 from the 14th tick on.
ScenarioFade(cfg) ==
  ( /\ config = cfg
    /\ volume_status = "Reduce"
    /\ h.sinceFlip >= 1
    /\ h.off0[1] = F32FromPercent(100) - F32FromPercent(30) ) =>
      IF h.sinceFlip < 14
        THEN Near(os_volume[1], F32FromPercent(100 - 5 * h.sinceFlip))
        ELSE os_volume[1] = F32FromPercent(30)

\* C5 as stated: the scenario with targets = ["game.exe"].
C5_Claim == ScenarioFade(MakeConfig(<<Str_game_exe>>, <<>>, 5, 100, 30, 10))

\* C5 amended: the scenario with targets = ["game"], the name the session of
\* game.exe gets.
C5_ScenarioStem == ScenarioFade(MakeConfig(<<Str_game>>, <<>>, 5, 100, 30, 10))

C5_Witness ==
  /\ config = MakeConfig(<<Str_game>>, <<>>, 5, 100, 30, 10)
  /\ volume_status = "Reduce"
  /\ h.off0[1] = F32FromPercent(100) - F32FromPercent(30)
  /\ h.sinceFlip = 15
  /\ os_volume[1] = F32FromPercent(30)
  /\ ~transform

\* C6 as stated: after an Update with a new reduce_volume was consumed during
\* a fade toward reduce_volume, the fade target is the new reduce_volume.
C6_Claim ==
  (h.updMidFade /\ volume_status = "Reduce") => expect_volume = config.reduce_volume

\* C7: a step that leaves the worker between a consumed Suspend and the next
\* consumed Resume runs no tick: the tick counter, the sessions' volumes and
\* the snapshot are as before.
C7_NoTickWhileSuspended ==
  [][h'.suspended => (ticks' = ticks /\ os_volume' = os_volume /\ device' = device)]_vars

C7_Witness ==
  /\ h.suspended /\ mode = "Suspended" /\ transform /\ ticks >= 3 /\ queue # <<>>

\* C8: a session whose name contains a target entry and an exclude entry is in
\* the target set of the tick and its peak is not measured.
C8_TargetBeforeExclude ==
  \A id \in h.matched :
    /\ \E t \in h.targets : SessionTable[t].pid = SessionTable[id].pid
    /\ id \notin h.measured

C8_Witness == h.matched # {} /\ h.measured # {} /\ h.matched \subseteq h.targets

\* C9 as stated: the fade target is the configuration's restore or reduce volume.
C9_Claim == expect_volume \in {config.resotre_volume, config.reduce_volume}

\* C10 as stated: when a volume read or write of a target fails in a fade
\* step, the loop goes on and every other target was stepped in that tick.
C10_Claim ==
  (h.rd_fail \cup h.wr_fail) # {} =>
    /\ mode = "Running"
    /\ h.written = h.targets \ (h.rd_fail \cup h.wr_fail)

\* C11 as stated: the worker has left its loop only if every sender of the
\* command channel was dropped; no failed audio call ends it.
C11_Claim == mode \notin {"Running", "Suspended"} => ~sender_alive

\* C12: once the sender is dropped the worker eventually is Stopped, and a
\* Stopped worker stays Stopped and writes no session volume.
C12_StopsOnDisconnect ==
  /\ ~sender_alive ~> mode = "Stopped"
  /\ [][mode = "Stopped" => (mode' = "Stopped" /\ os_volume' = os_volume)]_vars

C12_Witness == mode = "Stopped" /\ ~sender_alive /\ h.suspended /\ ticks >= 3

\* C13 as stated: after a tick whose sync call failed, the snapshot (endpoint
\* and session list) is the one from before the call, and the loop runs on.
C13_Claim == ~h.sync_ok => (Snapshot(device) = h.sync_pre /\ mode = "Running")

\* C14 as stated: when the sync call of the tick before, set off by a
\* notification, failed to resolve the endpoint or to enumerate the sessions,
\* the sync call of this tick attempted it again.
C14_Claim == h.was_owed => h.retried

\* C15: the sync call of a tick is forced exactly when the tick is a 600th
\* one, and no snapshot stays stale for 600 ticks.
C15_ForcedResync ==
  /\ ticks > 1 => (h.forced <=> (ticks - 1) % FORCE_RELOAD_TICKS = 0)
  /\ h.stale_age < FORCE_RELOAD_TICKS

C15_Witness ==
  /\ ticks = FORCE_RELOAD_TICKS /\ h.stale_age = FORCE_RELOAD_TICKS - 1
  /\ 2 \notin os_live /\ device.sessions_receiver

\* C16 as stated: when a sync call on a DefaultDerive has returned, every
\* notification raised during the call either left its dirty flag set or was
\* followed, within the call, by the fetch of the data it is about.
C16_Claim ==
  (device.kind = "DefaultDerive" /\ device.pc = "idle") =>
    /\ h.unfetched_d => device.derive_change
    /\ h.unfetched_s => device.ssession_change

\* C18: senders append at the tail of the queue and the worker takes its head,
\* one command a step; the running worker applies the command it takes, so a
\* Suspend suspends only once every command queued before it was applied, and
\* the configuration in force is then the one of the last Update before it.
C18_InOrder ==
  [][ /\ Len(queue') > Len(queue) => SubSeq(queue', 1, Len(queue)) = queue
      /\ Len(queue') < Len(queue) =>
            /\ queue' = Tail(queue)
            /\ mode = "Running" =>
                  /\ Head(queue)[1] = "Update" =>
                        (config' = Head(queue)[2] /\ mode' = "Running")
                  /\ Head(queue)[1] = "Suspend" =>
                        (config' = config /\ mode' = "Suspended")
                  /\ Head(queue)[1] = "Resume" =>
                        (config' = config /\ mode' = "Running") ]_vars

C18_Witness ==
  /\ mode = "Suspended" /\ h.held = config
  /\ h.last = "Update" /\ h.changed /\ h.behind = "Suspend"

\* C19: the suspended worker drops every command but Resume, with no effect
\* on the configuration or on anything else the loop keeps; a Resume returns
\* it to Running with the configuration it held when it suspended.
C19_SuspendedDiscards ==
  /\ [](mode = "Suspended" \/ (mode = "Running" /\ h.last = "Wake")
          => config = h.held)
  /\ [][ (mode = "Suspended" /\ Len(queue') < Len(queue)) =>
            IF Head(queue)[1] = "Resume"
              THEN mode' = "Running" /\ config' = config
              ELSE UNCHANGED << mode, config, transform, ticks, volume_status,
                                expect_volume, timeout, device, os_volume >> ]_vars

C19_Witness ==
  /\ mode = "Running" /\ h.last = "Wake" /\ config = h.held
  /\ h.discarded = {"Update", "Suspend"}

\* The snapshot of either type.
SnapshotOf(d) == IF d.kind = "Device" THEN Snapshot(d) ELSE DeriveSnapshot(d)

\* C17: after a second unforced sync call in a row, with no notification
\* pending or raised and no change of the audio subsystem since the first one
\* began, the snapshot is the one the first call left.
C17_SyncIdempotent == h.run = 2 => SnapshotOf(device) = h.first_snap

C17_Witness ==
  /\ h.run = 2 /\ device.kind = "Device" /\ device.sessions_receiver
  /\ SnapshotOf(device) # FreshSnapshot

\* The system-sounds sessions of a session list.
Sentinels(sessions) == {i \in 1..Len(sessions) : sessions[i].pid = 0}

\* C20: the session list of the snapshot holds at most one system-sounds
\* session.
C20_OneSentinel == Cardinality(Sentinels(device.sessions)) <= 1

C20_Witness ==
  /\ {4, 5} \subseteq os_live /\ os_default = 1
  /\ SnapshotOf(device) = (IF device.kind = "Device" THEN FreshSnapshot
                            ELSE <<os_default, DeriveSessions(os_default, os_live)>>)
  /\ Cardinality(Sentinels(device.sessions)) = 1
  /\ h.run >= 1

\* C21: while no tick measured a peak above the sensitivity the status is
\* Restore; and a tick whose peak is the sensitivity itself does what a quiet
\* tick does: in Restore it clears the accumulator, in Reduce it adds a tick
\* to it, or flips to Restore when that reaches the Restore-pending timeout.
C21_ThresholdIsQuiet ==
  /\ [](~h.everAbove => volume_status = "Restore")
  /\ [][ (ticks' # ticks /\ h'.peak = config'.sensitivity) =>
           IF volume_status = "Restore"
             THEN volume_status' = "Restore" /\ timeout' = 0
           ELSE IF timeout + TICK >= RESOTRE_TIMEOUT
             THEN volume_status' = "Restore" /\ timeout' = 0
           ELSE volume_status' = "Reduce" /\ timeout' = timeout + TICK ]_vars

C21_Witness ==
  /\ h.peak = config.sensitivity /\ volume_status = "Reduce"
  /\ timeout = RESOTRE_TIMEOUT - TICK /\ h.streak >= 29

\* C22: a tick whose desired status is the current one leaves the accumulator
\* at zero and the status as it was, and the status flips only in a tick that
\* ends an uninterrupted run of ticks, all loud or all quiet, as long as the
\* timeout of the pending status.
C22_ConsecutiveOnly ==
  [][ ticks' # ticks =>
        /\ (h'.loud <=> volume_status = "Reduce") =>
              (timeout' = 0 /\ volume_status' = volume_status)
        /\ volume_status' # volume_status =>
              h'.streak * TICK >= (IF h'.loud THEN REDUCE_TIMEOUT
                                             ELSE RESOTRE_TIMEOUT) ]_vars

C22_Witness ==
  /\ h.everAbove /\ ~h.loud /\ h.streak = 1 /\ timeout = 0
  /\ volume_status = "Restore" /\ h.flipAge > ticks /\ ticks >= 6

\* C23: the status changes only in a tick, and in that tick the fade target
\* becomes the volume the configuration of the tick gives for the new status,
\* the accumulator becomes zero and the fader is armed; any other step leaves
\* the status and the fade target as they were.
C23_FlipSetsTarget ==
  [][ IF volume_status' # volume_status
        THEN /\ ticks' # ticks
             /\ expect_volume' = (IF volume_status' = "Reduce"
                                    THEN config'.reduce_volume
                                    ELSE config'.resotre_volume)
             /\ timeout' = 0
             /\ h'.armed
        ELSE expect_volume' = expect_volume ]_vars

C23_Witness ==
  /\ h.flipped /\ h.armed /\ volume_status = "Restore"
  /\ config = MakeConfig(<<>>, <<Str_music>>, 100, 80, 30, 50)
  /\ expect_volume = config.resotre_volume /\ h.changed

\* C24: the accumulator is a whole number of ticks below the timeout of the
\* pending status; a flip comes at least two ticks after the flip before, and
\* a flip to Restore at least 30 ticks after it.
C24_AccumulatorBelowTimeout ==
  /\ timeout >= 0 /\ timeout % TICK = 0
  /\ timeout < (IF volume_status = "Restore" THEN REDUCE_TIMEOUT ELSE RESOTRE_TIMEOUT)
  /\ h.flipped => h.gap >= 2
  /\ (h.flipped /\ volume_status = "Restore") => h.gap * TICK >= RESOTRE_TIMEOUT

C24_Witness ==
  /\ h.flipped /\ volume_status = "Restore" /\ h.gap * TICK = RESOTRE_TIMEOUT

\* The sessions whose name contains no entry of the targets or of the exclude
\* list of the configuration.
Unlisted(cfg, sessions) ==
  { sessions[i].id : i \in
      { i \in 1..Len(sessions) :
          /\ \A k \in 1..Len(cfg.targets) : ~Contains(sessions[i].name, cfg.targets[k])
          /\ \A k \in 1..Len(cfg.exclude) : ~Contains(sessions[i].name, cfg.exclude[k]) } }

\* The status, the accumulator, the fade target and the armed flag after a
\* tick that measured h'.peak under cfg, stepped from the values before it.
StatusStepped(cfg) ==
  LET loud == h'.peak > cfg.sensitivity
  IN  IF loud <=> volume_status = "Reduce"
        THEN /\ volume_status' = volume_status /\ timeout' = 0
             /\ h'.armed = transform /\ expect_volume' = expect_volume
      ELSE IF timeout + TICK >= (IF loud THEN REDUCE_TIMEOUT ELSE RESOTRE_TIMEOUT)
        THEN /\ volume_status' # volume_status /\ timeout' = 0 /\ h'.armed
             /\ expect_volume' = (IF loud THEN cfg.reduce_volume
                                          ELSE cfg.resotre_volume)
      ELSE /\ volume_status' = volume_status /\ timeout' = timeout + TICK
           /\ h'.armed = transform /\ expect_volume' = expect_volume

\* C25: the iteration that consumes an Update while Running makes the
\* command's configuration the configuration, measures the sessions that
\* configuration leaves unlisted, compares the peak with its sensitivity, and
\* steps the status, the accumulator and the armed flag from the values they
\* had before the command.
C25_UpdateKeepsStatus ==
  [][ (mode = "Running" /\ Len(queue') < Len(queue) /\ Head(queue)[1] = "Update") =>
        /\ config' = Head(queue)[2]
        /\ h'.measured = Unlisted(Head(queue)[2], CurrentSessions(device'))
        /\ StatusStepped(Head(queue)[2]) ]_vars

C25_Witness ==
  /\ h.changed /\ volume_status = "Reduce" /\ timeout = 5 * TICK
  /\ Cardinality(h.measured) = 1

\* What C26 names: status, accumulator, fade target, armed flag,
\* configuration, tick counter.
Kept == << volume_status, timeout, expect_volume, transform, config, ticks >>

\* C26: from the step that consumes a Suspend to the one that consumes the
\* next Resume the six values stay what they were, and the tick of the
\* iteration that consumes the Resume steps from them.
C26_ResumesWhereLeft ==
  /\ [](mode = "Suspended" => Kept = h.kept)
  /\ [][ /\ (mode = "Running" /\ mode' = "Suspended") => Kept' = Kept
         /\ (mode = "Suspended" /\ mode' = "Running") =>
               /\ config' = config /\ ticks' = ticks + 1
               /\ StatusStepped(config) ]_vars

C26_Witness ==
  /\ mode = "Running" /\ h.last = "Wake" /\ h.kept[2] = TICK
  /\ h.flipped /\ volume_status = "Reduce" /\ ticks = h.kept[6] + 1

\* C27 as stated: a target session the fader wrote in the last tick, and that
\* was farther from the fade target than the configuration's transform_speed,
\* moved by that transform_speed.
C27_Claim ==
  \A id \in h.written :
    Abs(expect_volume - h.preVol[id]) > config.transform_speed =>
      Near(Abs(os_volume[id] - h.preVol[id]), config.transform_speed)

\* C28: once a tick has run: after a tick whose fade step ran, the fader is disarmed exactly when
\* every target of the tick was within one step of the fade target before the
\* step; a tick whose fade step did not run leaves it disarmed.
C28_DisarmWhenConverged ==
  ticks > 1 =>
    IF h.armed
      THEN ~transform <=>
             \A id \in h.targets : Abs(expect_volume - h.preVol[id]) <= TRANSFORM_SPEED
      ELSE ~transform

C28_Witness ==
  /\ h.armed /\ transform /\ h.targets = {1, 3}
  /\ h.preVol[1] = expect_volume
  /\ Abs(expect_volume - h.preVol[3]) > TRANSFORM_SPEED

\* C30: in every tick whose fade step runs, each target of the tick is
\* written, from the volume it had: one step nearer to the fade target when
\* it was farther than one step from it, onto the target otherwise; and the
\* fader stays armed while a target that joined an armed fade is off the
\* fade target.
C30_NewTargetStepped ==
  /\ [](\A id \in h.joined : os_volume[id] # expect_volume => transform)
  /\ [][ (ticks' # ticks /\ h'.armed) =>
           \A id \in h'.targets :
             /\ id \in h'.written
             /\ IF Abs(expect_volume' - os_volume[id]) > TRANSFORM_SPEED
                  THEN /\ Near(Abs(os_volume'[id] - os_volume[id]), TRANSFORM_SPEED)
                       /\ Abs(expect_volume' - os_volume'[id])
                            < Abs(expect_volume' - os_volume[id])
                       /\ os_volume'[id] # expect_volume'
                  ELSE os_volume'[id] = expect_volume' ]_vars

C30_Witness ==
  /\ 3 \in h.joined /\ os_volume[3] = expect_volume /\ ~transform
  /\ h.preVol[3] # expect_volume /\ volume_status = "Reduce"
  /\ os_volume[1] = expect_volume

\* The sessions of the list whose name contains an entry of the target list.
TargetNamed(cfg, sessions) ==
  { sessions[i].id : i \in {i \in 1..Len(sessions) : IsTarget(cfg, sessions[i].name)} }

\* C29 as stated: in every tick in which the fader is armed, every session of
\* the snapshot whose name contains a target entry has its volume read and
\* written, two sessions of one process included.
C29_Claim ==
  (ticks > 1 /\ h.armed) => h.written = TargetNamed(config, CurrentSessions(device))

C32_StartsArmed ==
  /\ [](ticks = 1 => (transform /\ expect_volume = config.resotre_volume))
  /\ []((ticks > 1 /\ h.sinceFlip = 0) =>
          /\ expect_volume = config.resotre_volume
          /\ \A id \in h.first \cap h.targets :
               os_volume[id] # expect_volume => transform)
  /\ [][ (ticks' # ticks /\ h'.sinceFlip = 0) =>
           \A id \in h'.first \cap h'.targets :
             \/ os_volume'[id] = expect_volume'
             \/ /\ Abs(expect_volume' - os_volume'[id])
                     < Abs(expect_volume' - os_volume[id])
                /\ Near(Abs(os_volume'[id] - os_volume[id]), TRANSFORM_SPEED) ]_vars
  /\ [][ (ticks = 1 /\ ticks' = 2 /\ h'.targets = {}) => ~transform' ]_vars
  /\ [][ (~transform /\ ticks' # ticks /\ ~h'.flipped) =>
           (os_volume' = os_volume /\ ~transform') ]_vars

C32_Witness ==
  /\ h.first = {} /\ h.targets = {3} /\ ~transform /\ h.sinceFlip = 0
  /\ os_volume[3] # expect_volume /\ os_volume[3] = F32FromPercent(40)
  /\ ticks >= 4

\* C33: every tick reads the meter of exactly the sessions of its snapshot
\* that are on neither list; the measured peak is the largest of the readings
\* that succeeded, 0 when there is none; and unless a volume read fails the
\* tick runs to its end.
C33_PeakIsMax ==
  [][ (ticks' # ticks \/ mode' = "Panicked") =>
        LET r == h'.readings
            ok == {id \in DOMAIN r : r[id] # PeakErr}
        IN  /\ DOMAIN r = Unlisted(config', CurrentSessions(device'))
            /\ h'.measured = ok
            /\ h'.peak = (IF ok = {} THEN 0 ELSE SetMax({r[id] : id \in ok}))
            /\ h'.rd_fail = {} => (ticks' = ticks + 1 /\ mode' = "Running") ]_vars

C33_Witness ==
  /\ DOMAIN h.readings = {1, 4}
  /\ h.readings[1] = PeakErr /\ h.readings[4] = F32FromPercent(50)
  /\ h.peak = F32FromPercent(50) /\ mode = "Running" /\ ticks = 3
  /\ volume_status = "Reduce" /\ h.flipped

\* C34: the sessions the fader wrote in the last tick are sessions whose name
\* contains a target entry of the configuration; and a step changes the
\* volume of a session only when it is a tick that wrote it, the session
\* being a target in that tick and not a measured one.
C34_WritesOnlyTargets ==
  /\ [](h.written \subseteq TargetNamed(config, CurrentSessions(device)))
  /\ [][ \A id \in SessionIds :
           os_volume'[id] # os_volume[id] =>
             /\ ticks' = ticks + 1
             /\ id \in h'.written
             /\ id \in TargetNamed(config', CurrentSessions(device'))
             /\ id \notin Unlisted(config', CurrentSessions(device'))
             /\ id \notin h'.measured ]_vars

C34_Witness ==
  /\ config = MakeConfig(<<Str_bar>>, <<Str_mus>>, 100, 100, 50, 10)
  /\ h.written = {3} /\ h.measured = {1, 4}
  /\ os_volume[1] # F32FromPercent(100) /\ os_volume[3] # os_volume[1]
  /\ os_volume[2] = F32FromPercent(100) /\ os_volume[4] = F32FromPercent(100)

\* C35 as stated: a tick whose sync call resolves the default endpoint, every
\* audio call succeeding, leaves a snapshot that holds the default endpoint
\* and the sessions enumerated on it in that call, whether or not the
\* snapshot is registered for session notifications.
C35_Claim ==
  [][ (ticks' # ticks /\ SyncResolves(device, ForceReload(ticks))) =>
        /\ device'.device = os_default
        /\ device'.sessions_some
        /\ device'.sessions = GetSessions(os_default, os_live) ]_vars

\* The endpoint a snapshot of either type holds.
HeldEndpoint(d) == IF d.kind = "Device" THEN d.device ELSE d.derive

\* C36 as stated: when no sync call is in progress, every session of the
\* snapshot's list is a session of the endpoint the snapshot holds.
C36_Claim ==
  (device.kind = "Device" \/ device.pc = "idle") =>
    \A i \in 1..Len(device.sessions) :
      SessionTable[device.sessions[i].id].dev = HeldEndpoint(device)

\* C37 as stated: a tick whose sync call resolves the default endpoint, every
\* audio call succeeding, on a snapshot that held the receiver of the session
\* notifications, leaves a snapshot that holds one.
C37_Claim ==
  [][ ( /\ ticks' # ticks
        /\ SyncResolves(device, ForceReload(ticks))
        /\ device.sessions_receiver ) => device'.sessions_receiver ]_vars

\* C38: an iteration of the running worker takes one command, the oldest,
\* and leaves the others queued; unless that command is a Suspend the
\* iteration runs a tick, which classifies the sessions under the
\* configuration the command left in force, an Update's own.
C38_OneCommandPerTick ==
  [][ (mode = "Running" /\ Len(queue') < Len(queue)) =>
        /\ Len(queue') = Len(queue) - 1
        /\ \A i \in 1..Len(queue') : queue'[i] = queue[i + 1]
        /\ Head(queue)[1] # "Suspend" =>
             /\ ticks' = ticks + 1
             /\ config' = (IF Head(queue)[1] = "Update" THEN Head(queue)[2] ELSE config)
             /\ h'.targets = TargetNamed(config', CurrentSessions(device'))
             /\ h'.matched = Matching(CurrentSessions(device'),
                                      config'.targets, config'.exclude)
             /\ h'.measured = Unlisted(config', CurrentSessions(device')) ]_vars

C38_Witness ==
  /\ mode = "Running" /\ ticks = 2 /\ h.last = "Update" /\ h.changed
  /\ h.behind = "Update" /\ Len(queue) = 1 /\ Head(queue)[2] # config
  /\ h.matched = {1} /\ h.targets = {1}

\* C39: the iteration of the running worker that takes a Resume leaves the
\* worker running with its configuration, and runs its tick: the tick counter
\* advances, the sessions the configuration leaves unlisted are measured, and
\* the status, the accumulator, the fade target and the armed flag are
\* stepped from the values they had before the command.
C39_ResumeWhileRunning ==
  [][ (mode = "Running" /\ Len(queue') < Len(queue) /\ Head(queue)[1] = "Resume") =>
        /\ mode' = "Running"
        /\ config' = config
        /\ ticks' = ticks + 1
        /\ h'.measured = Unlisted(config, CurrentSessions(device'))
        /\ StatusStepped(config) ]_vars

C39_Witness ==
  /\ mode = "Running" /\ h.last = "Resume" /\ ticks = 3
  /\ h.flipped /\ volume_status = "Reduce" /\ h.armed
  /\ expect_volume = config.reduce_volume

\* C40 as stated: once DefaultDerive::register has returned Ok, the field
\* client is Some and the client is registered with the endpoint enumerator,
\* and a change of the default endpoint sets derive_change.
C40_Claim ==
  /\ [](h.registered = "Ok" => (device.client /\ device.notified))
  /\ [][ (h.registered = "Ok" /\ os_default' # os_default) =>
           device'.derive_change ]_vars

====
